---- MODULE Spec2Model ----
(***************************************************************************)
(* State-machine model of src/main.py: the FastAPI chat application that   *)
(* keeps one LlamaIndex chat engine per "<user_id>_<thread_id>" key        *)
(* (user_chat_engines), persists every turn in a keyed chat store and      *)
(* relays the model's token stream to the caller as HTML fragments.        *)
(*                                                                         *)
(* Scheduling.  Every handler is an `async def` whose body contains no     *)
(* await, so FastAPI runs the dependency get_current_user and the handler  *)
(* body back to back on the single event-loop thread: no other handler     *)
(* runs in between.  `loop` records the handler that currently occupies    *)
(* the event loop.  A request waits (pc = "pending") only while its form   *)
(* is being read, and a relay generator is suspended only at its yields.   *)
(* chat_engine.stream_chat (line 139) appends the user message to the      *)
(* store, reads the context and starts a worker thread that drains the     *)
(* model's stream into a queue and appends the assistant message when the  *)
(* stream ends; that thread runs in parallel with the event loop, so its   *)
(* steps interleave with the store calls of a handler.  Each chat store    *)
(* call (get_messages, set_messages, add_message, delete_messages,         *)
(* get_keys) is one atomic statement against the database.                 *)
(*                                                                         *)
(* Texts (ids, keys, tokens, contents) are sequences of symbols so that    *)
(* concatenation, prefix tests and replacement are computed, not assumed.  *)
(***************************************************************************)
EXTENDS Naturals, Sequences, FiniteSets, TLC

\* ------------------------------------------------------------------ bounds
\* chat request slots
MaxStreams == 3
\* chat requests admitted under Spec, SessionSpec, ThreadSpec and AuthSpec
MaxChats == 2
\* chat requests admitted under RelaySpec
MaxRelayChats == 1

\* ------------------------------------------------------------- text helpers
RECURSIVE Concat(_)
Concat(ss) == IF ss = <<>> THEN <<>> ELSE Head(ss) \o Concat(Tail(ss))

IsPrefix(p, s) == Len(p) <= Len(s) /\ SubSeq(s, 1, Len(p)) = p

\* str.startswith
StartsWith(s, p) == IsPrefix(p, s)

\* str.replace(old, new) for a one-symbol `old`: every occurrence, left to right
RECURSIVE ReplaceAll(_, _, _)
ReplaceAll(s, old, new) ==
    IF s = <<>> THEN <<>>
    ELSE (IF Head(s) = old THEN new ELSE <<Head(s)>>) \o ReplaceAll(Tail(s), old, new)

\* str.strip(): leading and trailing blanks removed
RECURSIVE LStrip(_)
LStrip(s) == IF s # <<>> /\ Head(s) = " " THEN LStrip(Tail(s)) ELSE s
RECURSIVE RStrip(_)
RStrip(s) == IF s # <<>> /\ s[Len(s)] = " " THEN RStrip(SubSeq(s, 1, Len(s) - 1)) ELSE s
Strip(s) == RStrip(LStrip(s))

\* ------------------------------------------------------------ request inputs
Streams == 1..MaxStreams

\* user ids known to the identity provider, and thread ids sent by clients
UserA == <<"a">>
UserB == <<"a", "_", "b">>
UserIds == {UserA, UserB}
DefaultThread == <<"default">>
ThreadIds == {DefaultThread, <<"b", "_", "default">>}

\* Authorization headers: absent, wrong scheme, bearer with a good or bad token
NoHeader == <<>>
HeaderA == <<"Bearer ", "ta">>
Headers == {NoHeader, <<"Basic ", "ta">>, HeaderA, <<"Bearer ", "tb">>, <<"Bearer ", "zz">>}
HeaderB == <<"Bearer ", "tb">>
\* the headers of the chat requests of Spec
ChatHeaders == {HeaderA, <<"Bearer ", "zz">>}

\* the message text a chat request submits
Texts == {<<"H", "i">>}
\* a message text whose token estimate alone is above the limit of the window
LongText == <<"L", "o", "n", "g">>

\* token streams the completion service may produce for a request
ShortAnswer == <<<<"A">>>>
Responses == {<<>>, ShortAnswer, <<<<"A">>, <<"<", "b", ">">>, <<"C">>>>,
              <<<<">", "<">>, <<" ">>>>}

\* -------------------------------------------------------------- identity
\* supabase.auth.get_user(token): the user of a valid token, InvalidToken otherwise
InvalidToken == <<"!invalid">>
\* an identity check that takes every token for user a's
GetUserAnyToken(token) == UserA
GetUser(token) ==
    IF token = <<"ta">> THEN UserA
    ELSE IF token = <<"tb">> THEN UserB
    ELSE InvalidToken

\* get_current_user: the authenticated user id, or Unauthorized (HTTPException 401)
Unauthorized == <<"!401">>
GetCurrentUser(auth_header) ==
    IF auth_header = NoHeader \/ ~StartsWith(auth_header, <<"Bearer ">>)
    THEN Unauthorized
    ELSE LET token == ReplaceAll(auth_header, "Bearer ", <<>>)
         IN  IF GetUser(token) = InvalidToken THEN Unauthorized ELSE GetUser(token)

\* key = f"{user_id}_{thread_id}"
KeyOf(user_id, thread_id) == user_id \o <<"_">> \o thread_id
Keys == {KeyOf(u, t) : u \in UserIds, t \in ThreadIds}

\* ------------------------------------------------------------- chat store
NoEngine == 0

UserMessage(text, r) == [role |-> "user", content |-> text, req |-> r]
AssistantMessage(tokens, r) ==
    [role |-> "assistant", content |-> Strip(Concat(tokens)), req |-> r]

\* a store whose add_message replaces the row instead of appending to it
AddMessageOverwrite(log, m) == <<m>>
\* chat_store.add_message: the row's array with the message appended
AddMessage(log, m) == Append(log, m)

\* chat_store.set_messages: the row's array replaced
SetMessages(log, messages) == messages

\* chat_store.get_keys: the keys that have a row
GetKeys(st) == {k \in DOMAIN st : st[k] # <<>>}

\* ------------------------------------------------------------ memory window
\* token_limit=3000 (line 95)
TokenLimit == 3000

\* the tokenizer's count for one content; every symbol of a modelled text
\* stands for a block of text of 1000 tokens
TokenEstimate(text) == 1000 * Len(text)

\* ChatMemoryBuffer._token_count_for_messages
RECURSIVE TokenCount(_)
TokenCount(messages) ==
    IF messages = <<>> THEN 0
    ELSE TokenEstimate(Head(messages).content) + TokenCount(Tail(messages))

\* chat_history[-message_count:]
LastMessages(chat_history, message_count) ==
    SubSeq(chat_history, Len(chat_history) - message_count + 1, Len(chat_history))

\* ChatMemoryBuffer.get, inner loop: the retained messages may not start with
\* an assistant message, so that one is dropped as well
RECURSIVE SkipAssistant(_, _)
SkipAssistant(chat_history, message_count) ==
    IF message_count >= 1
       /\ chat_history[Len(chat_history) - message_count + 1].role = "assistant"
    THEN SkipAssistant(chat_history, message_count - 1)
    ELSE message_count

\* ChatMemoryBuffer.get, outer loop: the oldest message is dropped while the
\* count is above the limit and more than one message is retained
RECURSIVE Trim(_, _)
Trim(chat_history, message_count) ==
    IF TokenCount(LastMessages(chat_history, message_count)) > TokenLimit /\ message_count > 1
    THEN Trim(chat_history, SkipAssistant(chat_history, message_count - 1))
    ELSE message_count

\* ChatMemoryBuffer.get: the context for the model, read from the store; empty
\* when what is left after trimming is still above the limit
MemoryGet(chat_history) ==
    LET message_count == Trim(chat_history, Len(chat_history)) IN
    IF message_count <= 0
       \/ TokenCount(LastMessages(chat_history, message_count)) > TokenLimit
    THEN <<>>
    ELSE LastMessages(chat_history, message_count)

\* ------------------------------------------------------------------ state
VARIABLES
    store,      \* chat store: key -> the stored messages, oldest first
    cache,      \* user_chat_engines: key -> engine (NoEngine when absent)
    loop,       \* the handler occupying the event loop
    pc,         \* per chat request: its position
    hdr,        \* per chat request: Authorization header
    thr,        \* per chat request: thread_id
    txt,        \* per chat request: message
    existing,   \* per chat request: get_chat_engine's existing_messages
    eng,        \* per chat request: the engine get_chat_engine returned
    wst,        \* per chat request: the stream_chat worker thread
    resp,       \* per chat request: the tokens of the model's stream
    pulled,     \* per chat request: tokens the worker has taken from the model
    relayed,    \* per chat request: tokens generate() has taken from response_gen
    out,        \* per chat request: fragments generate() has yielded
    gone,       \* per chat request: the client has disconnected
    deleted,    \* per chat request: a delete_thread of its key began after it resolved
    reply       \* what the step just taken returned (and, for chat, the context
                \* it handed to the model)

vars == <<store, cache, loop, pc, hdr, thr, txt, existing, eng, wst, resp, pulled,
          relayed, out, gone, deleted, reply>>

reqVars == <<hdr, thr, txt>>
streamVars == <<wst, resp, pulled, relayed, out>>

Idle == [op |-> "idle", r |-> 0, key |-> <<>>]
NoReply == [op |-> "none", status |-> 0, body |-> <<>>]

\* positions of a chat request whose generate() has not ended: not started,
\* suspended at line 144, at line 145 or 150, at line 152
RelayPcs == {"START", "P1", "STREAMING", "CLOSING"}

\* the key a chat request works on (defined once it is authenticated)
ReqKey(r) == KeyOf(GetCurrentUser(hdr[r]), thr[r])
Resolved(r) == eng[r] # NoEngine

\* a conversation left in the database by an earlier run of the process
EarlierLog == <<[role |-> "user", content |-> <<"H", "i">>, req |-> 0],
               [role |-> "assistant", content |-> <<"A">>, req |-> 0]>>
EmptyStore == [k \in Keys |-> <<>>]

Init ==
    /\ store \in {EmptyStore, [EmptyStore EXCEPT ![KeyOf(UserA, DefaultThread)] = EarlierLog]}
    /\ cache = [k \in Keys |-> NoEngine]
    /\ loop = Idle
    /\ pc = [r \in Streams |-> "idle"]
    /\ hdr = [r \in Streams |-> NoHeader]
    /\ thr = [r \in Streams |-> DefaultThread]
    /\ txt = [r \in Streams |-> <<>>]
    /\ existing = [r \in Streams |-> <<>>]
    /\ eng = [r \in Streams |-> NoEngine]
    /\ wst = [r \in Streams |-> "none"]
    /\ resp = [r \in Streams |-> <<>>]
    /\ pulled = [r \in Streams |-> 0]
    /\ relayed = [r \in Streams |-> 0]
    /\ out = [r \in Streams |-> <<>>]
    /\ gone = [r \in Streams |-> FALSE]
    /\ deleted = [r \in Streams |-> FALSE]
    /\ reply = NoReply

\* -------------------------------------------------------- get_chat_engine
\* a cache test that always misses
CachedNever(key) == FALSE
\* `key not in user_chat_engines` (line 89), negated
Cached(key) == cache[key] # NoEngine

\* a chat handler that opens the stream without storing the user's message
ChatNextPcNoPut(p) ==
    CASE p = "hydrate" -> "get" [] p = "put" -> "get" [] p = "get" -> "START"
\* the statements of the chat handler in program order: what follows position p
ChatNextPc(p) ==
    CASE p = "hydrate" -> "put" [] p = "put" -> "get" [] p = "get" -> "START"

\* ------------------------------------------------------------- POST /api/chat
\* a chat request reaches the server; its form is being read
ChatArrive(r, h, t, x) ==
    /\ pc[r] = "idle"
    /\ \A q \in Streams : q < r => pc[q] # "idle"
    /\ pc' = [pc EXCEPT ![r] = "pending"]
    /\ hdr' = [hdr EXCEPT ![r] = h]
    /\ thr' = [thr EXCEPT ![r] = t]
    /\ txt' = [txt EXCEPT ![r] = x]
    /\ reply' = NoReply
    /\ UNCHANGED <<store, cache, loop, existing, eng, streamVars, deleted, gone>>

\* get_current_user raises 401: the handler body never runs (the request is
\* over: its parameters are dropped)
ChatUnauthorized(r) ==
    /\ loop = Idle
    /\ pc[r] = "pending"
    /\ GetCurrentUser(hdr[r]) = Unauthorized
    /\ pc' = [pc EXCEPT ![r] = "REJECTED"]
    /\ hdr' = [hdr EXCEPT ![r] = NoHeader]
    /\ thr' = [thr EXCEPT ![r] = DefaultThread]
    /\ txt' = [txt EXCEPT ![r] = <<>>]
    /\ reply' = [op |-> "chat", status |-> 401, body |-> <<>>]
    /\ UNCHANGED <<store, cache, loop, gone, existing, eng, streamVars, deleted>>

\* chat, lines 133-136, with get_chat_engine lines 87-91: the cached engine, or
\* the read of the stored messages that starts the construction of a new one
ChatBegin(r) ==
    /\ loop = Idle
    /\ pc[r] = "pending"
    /\ GetCurrentUser(hdr[r]) # Unauthorized
    /\ LET key == ReqKey(r) IN
       IF Cached(key)
       THEN /\ eng' = [eng EXCEPT ![r] = cache[key]]
            /\ pc' = [pc EXCEPT ![r] = ChatNextPc("hydrate")]
            /\ UNCHANGED existing
       ELSE /\ existing' = [existing EXCEPT ![r] = store[key]]
            /\ pc' = [pc EXCEPT ![r] = "hydrate"]
            /\ UNCHANGED eng
    /\ loop' = [op |-> "chat", r |-> r, key |-> ReqKey(r)]
    /\ reply' = NoReply
    /\ UNCHANGED <<store, cache, reqVars, gone, streamVars, deleted>>

\* a get_chat_engine that answers a failed read with an empty session
ReadFailureEmptySession(engines, key, r) == [engines EXCEPT ![key] = r]
\* the cache after line 91 raised: get_chat_engine was left before line 110
ReadFailure(engines, key, r) == engines

\* chat, lines 133-136, with get_chat_engine lines 87-91 when
\* chat_store.get_messages raises (the database cannot be read): nothing
\* catches the exception, so it leaves get_chat_engine and chat and the
\* request is answered with a server error
ChatReadFails(r) ==
    /\ loop = Idle
    /\ pc[r] = "pending"
    /\ GetCurrentUser(hdr[r]) # Unauthorized
    /\ ~Cached(ReqKey(r))
    /\ cache' = ReadFailure(cache, ReqKey(r), r)
    /\ pc' = [pc EXCEPT ![r] = "ERROR"]
    /\ reply' = [op |-> "chat", status |-> 500, body |-> <<>>]
    /\ UNCHANGED <<store, loop, reqVars, gone, existing, eng, streamVars, deleted>>

\* get_chat_engine, lines 93-112: the memory buffer bound to the key, the
\* write-back of the messages read, the new engine put in the cache
ChatHydrate(r) ==
    /\ loop.op = "chat" /\ loop.r = r
    /\ pc[r] = "hydrate"
    /\ LET key == ReqKey(r) IN
       /\ store' = IF existing[r] # <<>>
                   THEN [store EXCEPT ![key] = SetMessages(@, existing[r])]
                   ELSE store
       /\ cache' = [cache EXCEPT ![key] = r]
    /\ eng' = [eng EXCEPT ![r] = r]
    /\ existing' = [existing EXCEPT ![r] = <<>>]
    /\ pc' = [pc EXCEPT ![r] = ChatNextPc("hydrate")]
    /\ reply' = NoReply
    /\ UNCHANGED <<loop, reqVars, gone, streamVars, deleted>>

\* stream_chat, line 139, first half: memory.put of the user's message
ChatPut(r) ==
    /\ loop.op = "chat" /\ loop.r = r
    /\ pc[r] = "put"
    /\ store' = [store EXCEPT ![ReqKey(r)] = AddMessage(@, UserMessage(txt[r], r))]
    /\ pc' = [pc EXCEPT ![r] = ChatNextPc("put")]
    /\ reply' = NoReply
    /\ UNCHANGED <<cache, loop, reqVars, gone, existing, eng, streamVars, deleted>>

\* stream_chat, line 139, second half, and line 154: memory.get reads the
\* context, the model's stream is opened on it, the worker thread started, the
\* StreamingResponse returned
ChatStream(r, answer) ==
    /\ loop.op = "chat" /\ loop.r = r
    /\ pc[r] = "get"
    /\ resp' = [resp EXCEPT ![r] = answer]
    /\ wst' = [wst EXCEPT ![r] = "running"]
    /\ pc' = [pc EXCEPT ![r] = ChatNextPc("get")]
    /\ loop' = Idle
    /\ reply' = [op |-> "chat", status |-> 200, body |-> <<>>, r |-> r,
                 context |-> MemoryGet(store[ReqKey(r)])]
    /\ UNCHANGED <<store, cache, reqVars, gone, existing, eng, pulled, relayed, out, deleted>>

\* ------------------------------------------- the worker thread of stream_chat
\* one token taken from the model's stream and put in the response queue
WriterPull(r) ==
    /\ wst[r] = "running"
    /\ pulled[r] < Len(resp[r])
    /\ pulled' = [pulled EXCEPT ![r] = @ + 1]
    /\ reply' = NoReply
    /\ UNCHANGED <<store, cache, loop, pc, reqVars, gone, existing, eng, wst, resp, relayed,
                   out, deleted>>

\* the model's stream ended: the assistant message is put in the memory of the
\* engine (the store, under the engine's key) and the response marked done
WriterFinish(r) ==
    /\ wst[r] = "running"
    /\ pulled[r] = Len(resp[r])
    /\ store' = [store EXCEPT ![ReqKey(r)] = AddMessage(@, AssistantMessage(resp[r], r))]
    /\ wst' = [wst EXCEPT ![r] = "done"]
    /\ reply' = NoReply
    /\ UNCHANGED <<cache, loop, pc, reqVars, gone, existing, eng, resp, pulled, relayed, out,
                   deleted>>

\* the completion service fails: the worker records the exception and stops
WriterFail(r) ==
    /\ wst[r] = "running"
    /\ wst' = [wst EXCEPT ![r] = "failed"]
    /\ reply' = NoReply
    /\ UNCHANGED <<store, cache, loop, pc, reqVars, gone, existing, eng, resp, pulled, relayed,
                   out, deleted>>

\* --------------------------------------------------- generate(), lines 142-152
Prologue1 == <<"<div class=\"chat chat-start\" hx-swap-oob=\"beforeend:#messages\">">>
Prologue2 == <<"<div class=\"chat-bubble chat-bubble-secondary\">">>
Epilogue == <<"</div></div>">>

\* an escaping that forgets ">"
SafeTokenLtOnly(token) == ReplaceAll(token, "<", <<"&", "l", "t", ";">>)
\* line 149: token.replace("<", "&lt;").replace(">", "&gt;")
SafeToken(token) ==
    ReplaceAll(ReplaceAll(token, "<", <<"&", "l", "t", ";">>), ">", <<"&", "g", "t", ";">>)

\* a consumer that keeps iterating after the client has gone
ConsumerPullsAlways(r) == loop = Idle
\* The consumer (the StreamingResponse) resumes the generator only while the
\* client is connected and the event loop is free.
ConsumerPulls(r) == loop = Idle /\ ~gone[r]

\* a response_gen that stops as soon as the worker is done, queue drained or not
ResponseGenEndsEarly(r) ==
    IF wst[r] = "failed" THEN "raise"
    ELSE IF wst[r] = "done" THEN "stop"
    ELSE IF relayed[r] < pulled[r] THEN "token"
    ELSE "wait"
\* what response_gen does when asked for the next token: raise the worker's
\* exception, hand over a queued token, stop when the worker is done and the
\* queue is empty, or keep waiting
ResponseGen(r) ==
    IF wst[r] = "failed" THEN "raise"
    ELSE IF relayed[r] < pulled[r] THEN "token"
    ELSE IF wst[r] = "done" THEN "stop"
    ELSE "wait"

\* line 144: the first yield
RelayPrologue1(r) ==
    /\ ConsumerPulls(r)
    /\ pc[r] = "START"
    /\ out' = [out EXCEPT ![r] = Append(@, Prologue1)]
    /\ pc' = [pc EXCEPT ![r] = "P1"]
    /\ reply' = NoReply
    /\ UNCHANGED <<store, cache, loop, reqVars, gone, existing, eng, wst, resp, pulled, relayed,
                   deleted>>

\* line 145: the second yield
RelayPrologue2(r) ==
    /\ ConsumerPulls(r)
    /\ pc[r] = "P1"
    /\ out' = [out EXCEPT ![r] = Append(@, Prologue2)]
    /\ pc' = [pc EXCEPT ![r] = "STREAMING"]
    /\ reply' = NoReply
    /\ UNCHANGED <<store, cache, loop, reqVars, gone, existing, eng, wst, resp, pulled, relayed,
                   deleted>>

\* a relay that takes everything the queue holds before it yields
TakenAllQueued(r) == pulled[r]
\* line 147: one iteration of the for loop takes one token from response_gen
Taken(r) == relayed[r] + 1

\* lines 147-150: one token taken from response_gen, escaped and yielded
RelayToken(r) ==
    /\ ConsumerPulls(r)
    /\ pc[r] = "STREAMING"
    /\ ResponseGen(r) = "token"
    /\ out' = [out EXCEPT ![r] = Append(@, SafeToken(resp[r][relayed[r] + 1]))]
    /\ relayed' = [relayed EXCEPT ![r] = Taken(r)]
    /\ reply' = NoReply
    /\ UNCHANGED <<store, cache, loop, pc, reqVars, gone, existing, eng, wst, resp, pulled,
                   deleted>>

\* line 147: response_gen raises the worker's exception; nothing in generate()
\* catches it, so the generator ends with the exception and line 152 is not run
RelayError(r) ==
    /\ ConsumerPulls(r)
    /\ pc[r] = "STREAMING"
    /\ ResponseGen(r) = "raise"
    /\ pc' = [pc EXCEPT ![r] = "FAILED"]
    /\ reply' = [op |-> "stream", status |-> 500, body |-> <<>>]
    /\ UNCHANGED <<store, cache, loop, reqVars, gone, existing, eng, streamVars, deleted>>

\* line 152: response_gen is exhausted, the closing markup is yielded
RelayEpilogue(r) ==
    /\ ConsumerPulls(r)
    /\ pc[r] = "STREAMING"
    /\ ResponseGen(r) = "stop"
    /\ out' = [out EXCEPT ![r] = Append(@, Epilogue)]
    /\ pc' = [pc EXCEPT ![r] = "CLOSING"]
    /\ reply' = NoReply
    /\ UNCHANGED <<store, cache, loop, reqVars, gone, existing, eng, wst, resp, pulled, relayed,
                   deleted>>

\* the generator returns after its last yield: the response body is complete
RelayEnd(r) ==
    /\ ConsumerPulls(r)
    /\ pc[r] = "CLOSING"
    /\ pc' = [pc EXCEPT ![r] = "END"]
    /\ reply' = NoReply
    /\ UNCHANGED <<store, cache, loop, reqVars, gone, existing, eng, streamVars, deleted>>

\* the client goes away while the generator is suspended: the StreamingResponse
\* stops iterating it
Disconnect(r) ==
    /\ loop = Idle
    /\ pc[r] \in RelayPcs
    /\ ~gone[r]
    /\ gone' = [gone EXCEPT ![r] = TRUE]
    /\ reply' = NoReply
    /\ UNCHANGED <<store, cache, loop, pc, reqVars, existing, eng, streamVars, deleted>>

\* ------------------------------------------- DELETE /api/threads/{thread_id}
\* an eviction that clears the whole cache
EvictAll(engines, key) == [k \in DOMAIN engines |-> NoEngine]
\* line 276: del user_chat_engines[key]
Evict(engines, key) == [engines EXCEPT ![key] = NoEngine]

\* chat_store.delete_messages: the row of the key removed, if there is one
DeleteMessages(st, key) == [st EXCEPT ![key] = <<>>]

\* a delete_thread whose `del` is not guarded: KeyError when the key is not cached
DeleteStatusUnguarded(engines, key) == IF engines[key] = NoEngine THEN 500 ELSE 200
\* lines 275-278: the `del` is guarded by `key in user_chat_engines`, so the
\* success reply is reached whether or not the key was cached
DeleteStatus(engines, key) == 200

DeleteUnauthorized(h, t) ==
    /\ loop = Idle
    /\ GetCurrentUser(h) = Unauthorized
    /\ reply' = [op |-> "delete", status |-> 401, body |-> <<>>]
    /\ UNCHANGED <<store, cache, loop, pc, reqVars, gone, existing, eng, streamVars, deleted>>

\* lines 268-272: chat_store.delete_messages(key)
DeleteBegin(h, t) ==
    /\ loop = Idle
    /\ GetCurrentUser(h) # Unauthorized
    /\ LET key == KeyOf(GetCurrentUser(h), t) IN
       /\ store' = DeleteMessages(store, key)
       /\ loop' = [op |-> "delete", r |-> 0, key |-> key]
       /\ deleted' = [r \in Streams |-> deleted[r] \/ (Resolved(r) /\ ReqKey(r) = key)]
    /\ reply' = NoReply
    /\ UNCHANGED <<cache, pc, reqVars, gone, existing, eng, streamVars>>

\* lines 274-278: the engine is dropped from the cache, success is returned
DeleteFinish ==
    /\ loop.op = "delete"
    /\ cache' = IF Cached(loop.key) THEN Evict(cache, loop.key) ELSE cache
    /\ loop' = Idle
    /\ reply' = [op |-> "delete", status |-> DeleteStatus(cache, loop.key), body |-> loop.key]
    /\ UNCHANGED <<store, pc, reqVars, gone, existing, eng, streamVars, deleted>>

\* ----------------------------------------------------------- GET /api/threads
\* the sequences that list the members of a set once each, in any order
RECURSIVE Orders(_)
Orders(S) ==
    IF S = {} THEN {<<>>}
    ELSE UNION {{<<x>> \o o : o \in Orders(S \ {x})} : x \in S}

\* key.replace(user_prefix, "", 1) for a key that starts with user_prefix
RemovePrefix(key, prefix) == SubSeq(key, Len(prefix) + 1, Len(key))

\* lines 216-222: the thread ids of the keys that start with the user's prefix
RECURSIVE UserThreads(_, _)
UserThreads(all_keys, user_prefix) ==
    IF all_keys = <<>> THEN <<>>
    ELSE (IF StartsWith(Head(all_keys), user_prefix)
          THEN <<RemovePrefix(Head(all_keys), user_prefix)>>
          ELSE <<>>) \o UserThreads(Tail(all_keys), user_prefix)

InSeq(x, s) == \E i \in 1..Len(s) : s[i] = x

\* a get_threads that adds "default" only to an empty list
WithDefaultIfEmpty(threads) == IF threads = <<>> THEN <<DefaultThread>> ELSE threads
\* lines 224-226: threads.insert(0, "default") when it is missing
WithDefault(threads) ==
    IF InSeq(DefaultThread, threads) THEN threads ELSE <<DefaultThread>> \o threads

GetThreadsUnauthorized(h) ==
    /\ loop = Idle
    /\ GetCurrentUser(h) = Unauthorized
    /\ reply' = [op |-> "threads", status |-> 401, body |-> <<>>]
    /\ UNCHANGED <<store, cache, loop, pc, reqVars, gone, existing, eng, streamVars, deleted>>

GetThreads(h, all_keys) ==
    /\ loop = Idle
    /\ GetCurrentUser(h) # Unauthorized
    /\ all_keys \in Orders(GetKeys(store))
    /\ reply' = [op |-> "threads", status |-> 200, user |-> GetCurrentUser(h),
                 body |-> WithDefault(UserThreads(all_keys, GetCurrentUser(h) \o <<"_">>))]
    /\ UNCHANGED <<store, cache, loop, pc, reqVars, gone, existing, eng, streamVars, deleted>>

\* ------------------------------------- GET /api/threads/{thread_id}/messages
\* a rendering that reads what the memory window retains instead of the log
HtmlMessagesOfWindow(messages) ==
    LET window == MemoryGet(messages)
        Html(msg) == IF msg.role = "user"
                     THEN <<"chat chat-end", "chat-bubble chat-bubble-primary", msg.content>>
                     ELSE <<"chat chat-start", "chat-bubble chat-bubble-secondary", msg.content>>
    IN  [i \in 1..Len(window) |-> Html(window[i])]
\* lines 245-257: one fragment per user or assistant message, content as stored
RECURSIVE HtmlMessages(_)
HtmlMessages(messages) ==
    IF messages = <<>> THEN <<>>
    ELSE LET msg == Head(messages) IN
         (IF msg.role = "user"
          THEN <<<<"chat chat-end", "chat-bubble chat-bubble-primary", msg.content>>>>
          ELSE IF msg.role = "assistant"
          THEN <<<<"chat chat-start", "chat-bubble chat-bubble-secondary", msg.content>>>>
          ELSE <<>>) \o HtmlMessages(Tail(messages))

GetThreadMessagesUnauthorized(h, t) ==
    /\ loop = Idle
    /\ GetCurrentUser(h) = Unauthorized
    /\ reply' = [op |-> "messages", status |-> 401, body |-> <<>>]
    /\ UNCHANGED <<store, cache, loop, pc, reqVars, gone, existing, eng, streamVars, deleted>>

GetThreadMessages(h, t) ==
    /\ loop = Idle
    /\ GetCurrentUser(h) # Unauthorized
    /\ reply' = [op |-> "messages", status |-> 200, key |-> KeyOf(GetCurrentUser(h), t),
                 body |-> HtmlMessages(store[KeyOf(GetCurrentUser(h), t)])]
    /\ UNCHANGED <<store, cache, loop, pc, reqVars, gone, existing, eng, streamVars, deleted>>

\* ------------------------------------------------------------ specifications
\* The worker thread of chat request r
Writer(r) == WriterPull(r) \/ WriterFinish(r) \/ WriterFail(r)

\* generate() of chat request r, driven by its consumer
Relay(r) ==
    \/ RelayPrologue1(r) \/ RelayPrologue2(r) \/ RelayToken(r)
    \/ RelayError(r) \/ RelayEpilogue(r) \/ RelayEnd(r)

\* Spec: the session registry and the store under every handler and the worker
\* threads: MaxChats chat requests of user a (or with a rejected token) on
\* either thread; deletions and reads under every header.
Next ==
    \/ \E r \in 1..MaxChats, h \in ChatHeaders, t \in ThreadIds, x \in Texts :
           ChatArrive(r, h, t, x)
    \/ \E r \in Streams : ChatUnauthorized(r)
    \/ \E r \in Streams : ChatBegin(r)
    \/ \E r \in Streams : ChatHydrate(r)
    \/ \E r \in Streams : ChatPut(r)
    \/ \E r \in Streams : ChatStream(r, ShortAnswer)
    \/ \E r \in Streams : WriterPull(r)
    \/ \E r \in Streams : WriterFinish(r)
    \/ \E r \in Streams : WriterFail(r)
    \/ \E h \in Headers, t \in ThreadIds : DeleteUnauthorized(h, t)
    \/ \E h \in Headers, t \in ThreadIds : DeleteBegin(h, t)
    \/ DeleteFinish
    \/ \E h \in Headers : GetThreadsUnauthorized(h)
    \/ \E h \in Headers : \E all_keys \in Orders(GetKeys(store)) : GetThreads(h, all_keys)
    \/ \E h \in Headers, t \in ThreadIds : GetThreadMessagesUnauthorized(h, t)
    \/ \E h \in Headers, t \in ThreadIds : GetThreadMessages(h, t)

Spec == Init /\ [][Next]_vars

\* RaceSpec: MaxStreams chat requests and deletions of one user on one thread,
\* with the worker threads.
RaceNext ==
    \/ \E r \in Streams : ChatArrive(r, HeaderA, DefaultThread, <<"H", "i">>)
    \/ \E r \in Streams : ChatBegin(r)
    \/ \E r \in Streams : ChatHydrate(r)
    \/ \E r \in Streams : ChatPut(r)
    \/ \E r \in Streams : ChatStream(r, ShortAnswer)
    \/ \E r \in Streams : WriterPull(r)
    \/ \E r \in Streams : WriterFinish(r)
    \/ DeleteBegin(HeaderA, DefaultThread)
    \/ DeleteFinish

RaceSpec == Init /\ [][RaceNext]_vars

\* RelaySpec: MaxRelayChats chat requests of one user on one thread, streamed to
\* their callers: every token stream of Responses, failures and disconnects.
RelayNext ==
    \/ \E r \in 1..MaxRelayChats : ChatArrive(r, HeaderA, DefaultThread, <<"H", "i">>)
    \/ \E r \in Streams : ChatBegin(r)
    \/ \E r \in Streams : ChatHydrate(r)
    \/ \E r \in Streams : ChatPut(r)
    \/ \E r \in Streams, answer \in Responses : ChatStream(r, answer)
    \/ \E r \in Streams : WriterPull(r)
    \/ \E r \in Streams : WriterFinish(r)
    \/ \E r \in Streams : WriterFail(r)
    \/ \E r \in Streams : RelayPrologue1(r)
    \/ \E r \in Streams : RelayPrologue2(r)
    \/ \E r \in Streams : RelayToken(r)
    \/ \E r \in Streams : RelayError(r)
    \/ \E r \in Streams : RelayEpilogue(r)
    \/ \E r \in Streams : RelayEnd(r)
    \/ \E r \in Streams : Disconnect(r)

RelaySpec == Init /\ [][RelayNext]_vars

\* SessionSpec: MaxChats chat requests of one user on one thread, with short
\* and oversized messages and with reads of the store that fail, the worker
\* threads, and reads of the thread's history.
SessionNext ==
    \/ \E r \in 1..MaxChats, x \in Texts \cup {LongText} :
           ChatArrive(r, HeaderA, DefaultThread, x)
    \/ \E r \in Streams : ChatBegin(r)
    \/ \E r \in Streams : ChatReadFails(r)
    \/ \E r \in Streams : ChatHydrate(r)
    \/ \E r \in Streams : ChatPut(r)
    \/ \E r \in Streams : ChatStream(r, ShortAnswer)
    \/ \E r \in Streams : WriterPull(r)
    \/ \E r \in Streams : WriterFinish(r)
    \/ GetThreadMessages(HeaderA, DefaultThread)

SessionSpec == Init /\ [][SessionNext]_vars

\* ThreadSpec: MaxChats chat requests of two users on either thread, with the
\* worker threads, deletions and the listing of threads by both users.
ThreadNext ==
    \/ \E r \in 1..MaxChats, h \in {HeaderA, HeaderB}, t \in ThreadIds :
           ChatArrive(r, h, t, <<"H", "i">>)
    \/ \E r \in Streams : ChatBegin(r)
    \/ \E r \in Streams : ChatHydrate(r)
    \/ \E r \in Streams : ChatPut(r)
    \/ \E r \in Streams : ChatStream(r, ShortAnswer)
    \/ \E r \in Streams : WriterPull(r)
    \/ \E r \in Streams : WriterFinish(r)
    \/ \E h \in {HeaderA, HeaderB}, t \in ThreadIds : DeleteBegin(h, t)
    \/ DeleteFinish
    \/ \E h \in {HeaderA, HeaderB} : \E all_keys \in Orders(GetKeys(store)) :
           GetThreads(h, all_keys)

ThreadSpec == Init /\ [][ThreadNext]_vars

\* AuthSpec: MaxChats chat requests under every header, with the worker
\* threads, and the other three handlers under the headers that fail the
\* identity check.
AuthNext ==
    \/ \E r \in 1..MaxChats, h \in Headers : ChatArrive(r, h, DefaultThread, <<"H", "i">>)
    \/ \E r \in Streams : ChatUnauthorized(r)
    \/ \E r \in Streams : ChatBegin(r)
    \/ \E r \in Streams : ChatHydrate(r)
    \/ \E r \in Streams : ChatPut(r)
    \/ \E r \in Streams : ChatStream(r, ShortAnswer)
    \/ \E r \in Streams : WriterPull(r)
    \/ \E r \in Streams : WriterFinish(r)
    \/ \E h \in Headers, t \in ThreadIds : DeleteUnauthorized(h, t)
    \/ \E h \in Headers : GetThreadsUnauthorized(h)
    \/ \E h \in Headers, t \in ThreadIds : GetThreadMessagesUnauthorized(h, t)

AuthSpec == Init /\ [][AuthNext]_vars

\* ------------------------------------------------------------------ claims
HasMessage(log, m) == \E i \in 1..Len(log) : log[i] = m

\* the chat requests that hold an engine of key k and saw no later deletion of k
Live(k) == {r \in Streams : eng[r] # NoEngine /\ ReqKey(r) = k /\ ~deleted[r]}

\* C1: among the chat requests that resolved the same key with no deletion of
\* that key since, exactly one constructed an engine (the engine a request
\* constructs carries the request's number) and every one of them holds that
\* engine, which is the cached one.
C1_OneEnginePerKey ==
    \A k \in Keys :
        Live(k) # {} =>
            /\ Cardinality({r \in Live(k) : eng[r] = r}) = 1
            /\ \A r \in Live(k) : eng[r] = cache[k]

\* two requests in flight at once on one key: the first still streams, the
\* second has just been handed the first one's engine
C1_Witness ==
    \E r1, r2 \in Streams :
        /\ r1 # r2 /\ ReqKey(r1) = ReqKey(r2)
        /\ ~deleted[r1] /\ ~deleted[r2]
        /\ wst[r1] = "running" /\ pc[r2] = "put"
        /\ eng[r1] = r1 /\ eng[r2] = r1

\* C2: a cached entry changes only in the step of delete_thread that removes
\* that key, and a request that resolves a cached key is handed the cached
\* engine without the cache changing.
C2_CachedUntilDeleted ==
    [][ /\ \A k \in Keys :
              cache[k] # NoEngine =>
                  \/ cache'[k] = cache[k]
                  \/ loop.op = "delete" /\ loop.key = k /\ cache'[k] = NoEngine
        /\ \A r \in Streams :
              (eng[r] = NoEngine /\ eng'[r] # NoEngine /\ cache[ReqKey(r)] # NoEngine) =>
                  (eng'[r] = cache[ReqKey(r)] /\ cache' = cache) ]_vars

\* a second request was handed the cached engine, and the entry survived the
\* deletion of another key that has just completed
C2_Witness ==
    \E r1, r2 \in Streams :
        /\ r1 # r2 /\ eng[r2] = r1 /\ cache[ReqKey(r1)] = r1
        /\ reply.op = "delete" /\ reply.status = 200 /\ reply.body # ReqKey(r1)

\* C3: when delete_thread returns success for a key, the store holds no
\* message under that key and the cache holds no engine for it.
C3_DeleteRemovesBoth ==
    (reply.op = "delete" /\ reply.status = 200) =>
        (store[reply.body] = <<>> /\ cache[reply.body] = NoEngine)

\* C4: in every step the log of every key keeps what it held and grows at its
\* end, except in the step of delete_thread that empties the log of that key.
C4_AppendOnly ==
    [][ \A k \in Keys :
            \/ IsPrefix(store[k], store'[k])
            \/ store'[k] = <<>> /\ loop.op = "idle" /\ loop'.op = "delete" /\ loop'.key = k
      ]_vars

\* C5: whenever the stream of a chat request has been opened, and so whenever
\* the worker has taken a token of it from the completion service, the user's
\* message of that request is in the log of its key (unless a deletion of the
\* key has begun since).
C5_UserMessageFirst ==
    \A r \in Streams :
        ((wst[r] # "none" \/ pulled[r] > 0) /\ ~deleted[r]) =>
            HasMessage(store[ReqKey(r)], UserMessage(txt[r], r))

\* the worker has taken the first token and the user's message is stored
C5_Witness ==
    \E r \in Streams :
        /\ pulled[r] = 1 /\ wst[r] = "running" /\ ~deleted[r]
        /\ HasMessage(store[ReqKey(r)], UserMessage(txt[r], r))

\* C6: two chat requests on one key whose workers have both finished, with no
\* deletion of the key since they resolved it, have all four of their messages
\* in the log of the key.
C6_NoLostAppend ==
    \A r1, r2 \in Streams :
        (/\ r1 # r2 /\ ReqKey(r1) = ReqKey(r2)
         /\ wst[r1] = "done" /\ wst[r2] = "done"
         /\ ~deleted[r1] /\ ~deleted[r2]) =>
            LET log == store[ReqKey(r1)] IN
            /\ HasMessage(log, UserMessage(txt[r1], r1))
            /\ HasMessage(log, UserMessage(txt[r2], r2))
            /\ HasMessage(log, AssistantMessage(resp[r1], r1))
            /\ HasMessage(log, AssistantMessage(resp[r2], r2))

\* two streams that overlapped: the second request's message was stored before
\* the first one's reply, and the second reply before the first
C6_Witness ==
    \E r1, r2 \in Streams :
        /\ r1 # r2 /\ ReqKey(r1) = ReqKey(r2)
        /\ wst[r1] = "done" /\ wst[r2] = "done"
        /\ store[ReqKey(r1)] = << UserMessage(txt[r1], r1), UserMessage(txt[r2], r2),
                                  AssistantMessage(resp[r2], r2),
                                  AssistantMessage(resp[r1], r1) >>

\* the escaped form the claims speak of: every symbol of the token replaced on
\* its own, "<" by "&lt;", ">" by "&gt;", any other symbol kept
Entity(c) ==
    IF c = "<" THEN <<"&", "l", "t", ";">>
    ELSE IF c = ">" THEN <<"&", "g", "t", ";">>
    ELSE <<c>>
EscapedToken(token) == Concat([i \in 1..Len(token) |-> Entity(token[i])])
ExpectedFragments(tokens) ==
    <<Prologue1, Prologue2>> \o [i \in 1..Len(tokens) |-> EscapedToken(tokens[i])]
        \o <<Epilogue>>

\* C7: what generate() has yielded is always a leading part of: the prologue
\* markup, one escaped fragment per token of the stream in the stream's order,
\* the epilogue markup; it counts one fragment per token taken; and when the
\* generator has ended normally it is that whole sequence.
C7_RelayFragments ==
    \A r \in Streams :
        /\ IsPrefix(out[r], ExpectedFragments(resp[r]))
        /\ pc[r] = "STREAMING" => Len(out[r]) = 2 + relayed[r]
        /\ pc[r] \in {"CLOSING", "END"} => out[r] = ExpectedFragments(resp[r])

\* the stream "A", "<b>", "C" relayed to its end
C7_Witness ==
    \E r \in Streams :
        /\ pc[r] = "END"
        /\ resp[r] = << <<"A">>, <<"<", "b", ">">>, <<"C">> >>
        /\ out[r] = << Prologue1, Prologue2, <<"A">>,
                       <<"&", "l", "t", ";", "b", "&", "g", "t", ";">>, <<"C">>, Epilogue >>

\* C8: a relay that ended with the failure of the completion service has
\* emitted the epilogue as its last fragment.
C8_FailureClosesFraming ==
    \A r \in Streams :
        pc[r] = "FAILED" => (out[r] # <<>> /\ out[r][Len(out[r])] = Epilogue)

RelayFairness ==
    \A r \in Streams :
        /\ WF_vars(ChatHydrate(r)) /\ WF_vars(ChatPut(r))
        /\ WF_vars(\E answer \in Responses : ChatStream(r, answer))
        /\ WF_vars(Writer(r))
        /\ WF_vars(Relay(r))

RelayLiveSpec == RelaySpec /\ RelayFairness

\* C10: (a) a relay that has started reaches END unless the completion service
\* fails or the client disconnects; (b) it is in END only when the worker has
\* signalled completion and every token of the stream was forwarded; (c) from
\* END it never moves, takes a token or yields a fragment.
C10_RelayLifecycle ==
    /\ \A r \in Streams :
           (pc[r] \in RelayPcs) ~> (pc[r] = "END" \/ wst[r] = "failed" \/ gone[r])
    /\ [](\A r \in Streams :
             pc[r] = "END" =>
                 (wst[r] = "done" /\ relayed[r] = Len(resp[r])
                  /\ Len(out[r]) = Len(resp[r]) + 3))
    /\ [][ \A r \in Streams :
               pc[r] = "END" =>
                   (pc'[r] = "END" /\ out'[r] = out[r] /\ relayed'[r] = relayed[r])
         ]_vars

\* a relay in END after a stream of three tokens
C10_Witness ==
    \E r \in Streams : pc[r] = "END" /\ Len(resp[r]) = 3 /\ wst[r] = "done" /\ ~gone[r]

\* C11: a chat request whose read of the stored messages failed is answered
\* with a server error in a step that leaves the cache and the store as they
\* were; it holds no engine, no stream was opened for it and nothing was
\* yielded to its caller; no cache entry and no other request holds a session
\* made by it, so every engine in use was built by a request that hydrated it.
C11_ReadFailurePropagates ==
    /\ [](\A r \in Streams :
             /\ pc[r] = "ERROR" =>
                    /\ eng[r] = NoEngine /\ wst[r] = "none"
                    /\ pulled[r] = 0 /\ relayed[r] = 0 /\ out[r] = <<>>
                    /\ \A k \in Keys : cache[k] # r
             /\ eng[r] # NoEngine => (pc[eng[r]] # "ERROR" /\ eng[eng[r]] = eng[r]))
    /\ [][ \A r \in Streams :
               (pc[r] = "pending" /\ pc'[r] = "ERROR") =>
                   /\ cache' = cache /\ store' = store
                   /\ reply'.op = "chat" /\ reply'.status = 500
         ]_vars

\* the first request failed to read the log; the second one then built the
\* session from the earlier conversation and holds its own engine
C11_Witness ==
    \E r1, r2 \in Streams :
        /\ pc[r1] = "ERROR" /\ ReqKey(r1) = ReqKey(r2) /\ r1 < r2
        /\ eng[r2] = r2 /\ cache[ReqKey(r2)] = r2 /\ wst[r2] = "running"
        /\ IsPrefix(EarlierLog, store[ReqKey(r2)])
        /\ HasMessage(store[ReqKey(r2)], UserMessage(txt[r2], r2))

\* the user and the (user, thread) pair of a chat request
UserOf(r) == GetCurrentUser(hdr[r])
PairOf(r) == <<UserOf(r), thr[r]>>

\* C12: two chat requests that resolved sessions for different (user, thread)
\* pairs work on different keys and hold different engines.
C12_KeyUniquePerPair ==
    \A r1, r2 \in Streams :
        (eng[r1] # NoEngine /\ eng[r2] # NoEngine /\ PairOf(r1) # PairOf(r2)) =>
            (ReqKey(r1) # ReqKey(r2) /\ eng[r1] # eng[r2])

\* the thread ids t for which the key of (user, t) is a key of the store
ThreadsWithKey(user) ==
    {t \in UNION {{SubSeq(k, i, Len(k)) : i \in 1..(Len(k) + 1)} : k \in Keys} :
        KeyOf(user, t) \in Keys}

AuthorOf(m) == IF m.req = 0 THEN UserA ELSE UserOf(m.req)

\* C14: a thread id other than "default" is in the list get_threads returns
\* for a user exactly when the store holds a message under the key of (user,
\* thread id), and every message under the key of a listed thread was stored
\* by that user.
C14_OwnThreadsOnly ==
    (reply.op = "threads" /\ reply.status = 200) =>
        /\ \A t \in ThreadsWithKey(reply.user) \ {DefaultThread} :
               InSeq(t, reply.body) <=> store[KeyOf(reply.user, t)] # <<>>
        /\ \A i \in 1..Len(reply.body) :
               LET log == store[KeyOf(reply.user, reply.body[i])] IN
               \A j \in 1..Len(log) : AuthorOf(log[j]) = reply.user

Fragment(msg) ==
    IF msg.role = "user"
    THEN <<"chat chat-end", "chat-bubble chat-bubble-primary", msg.content>>
    ELSE <<"chat chat-start", "chat-bubble chat-bubble-secondary", msg.content>>

\* C16: what get_thread_messages returns for a key is one fragment per message
\* stored under the key, in the order of the log and with the stored content
\* (so nothing at all for a key with no stored messages), whatever part of
\* the log the memory window retains.
C16_FullHistoryInOrder ==
    (reply.op = "messages" /\ reply.status = 200) =>
        LET log == store[reply.key] IN
        /\ Len(reply.body) = Len(log)
        /\ \A i \in 1..Len(log) : reply.body[i] = Fragment(log[i])

\* the history of a thread was returned in full, five messages with the
\* oversized one among them, while the window on that log retains one
C16_Witness ==
    /\ reply.op = "messages" /\ reply.status = 200
    /\ Len(reply.body) = 5 /\ Len(MemoryGet(store[reply.key])) = 1
    /\ \E i \in 1..5 : reply.body[i][3] = LongText
    /\ IsPrefix(EarlierLog, store[reply.key])

\* the history of a key with no stored messages is empty, not an error
C16_WitnessEmpty ==
    /\ reply.op = "messages" /\ reply.status = 200
    /\ reply.body = <<>> /\ store[reply.key] = <<>>

IsSuffix(t, s) == Len(t) <= Len(s) /\ SubSeq(s, Len(s) - Len(t) + 1, Len(s)) = t

\* C17: the context a chat request hands to the completion service is a
\* suffix of the log of its key, it is not empty, and its token estimate is
\* not above the limit unless it consists of exactly one message.
C17_WindowWithinBudget ==
    (reply.op = "chat" /\ reply.status = 200) =>
        LET log == store[ReqKey(reply.r)] IN
        /\ IsSuffix(reply.context, log)
        /\ reply.context # <<>>
        /\ TokenCount(reply.context) <= TokenLimit \/ Len(reply.context) = 1

\* the headers whose identity check fails: missing, not starting with
\* "Bearer ", or carrying a token the identity provider does not know
FailsIdentityCheck(h) ==
    \/ h = NoHeader
    \/ Head(h) # "Bearer "
    \/ Tail(h) \notin {<<"ta">>, <<"tb">>}

\* C18: a chat request whose header fails the identity check goes from
\* waiting to rejected with a 401 reply and nowhere else; a rejected request
\* holds no engine and no stream and nothing was pulled or yielded for it;
\* every step that replies 401, for chat, get_threads, get_thread_messages or
\* delete_thread, leaves the cache, the store, the engines held, the workers
\* and the tokens pulled as they were.
C18_AuthFailureTouchesNothing ==
    /\ [](\A r \in Streams :
             /\ pc[r] \notin {"idle", "pending", "REJECTED"} => ~FailsIdentityCheck(hdr[r])
             /\ pc[r] = "REJECTED" =>
                    /\ eng[r] = NoEngine /\ wst[r] = "none"
                    /\ pulled[r] = 0 /\ relayed[r] = 0 /\ out[r] = <<>>)
    /\ [][ /\ \A r \in Streams :
                  (pc[r] = "pending" /\ FailsIdentityCheck(hdr[r]) /\ pc'[r] # "pending") =>
                      (pc'[r] = "REJECTED" /\ reply'.op = "chat" /\ reply'.status = 401)
           /\ reply'.status = 401 =>
                  /\ store' = store /\ cache' = cache /\ eng' = eng /\ wst' = wst
                  /\ pulled' = pulled /\ relayed' = relayed /\ out' = out
         ]_vars

\* a chat request with an unknown token was rejected while another
\* request's stream was running and its session was cached
C18_Witness ==
    /\ reply.op = "chat" /\ reply.status = 401
    /\ \E r, q \in Streams :
           /\ pc[r] = "REJECTED" /\ wst[q] = "running" /\ pulled[q] = 1
           /\ cache[ReqKey(q)] = q
           /\ HasMessage(store[ReqKey(q)], UserMessage(txt[q], q))

\* the token fragments generate() has yielded (its output less the prologue)
Emitted(fragments) == IF Len(fragments) <= 2 THEN 0 ELSE Len(fragments) - 2

\* C19: generate() has never taken more than one token that it has not yet
\* yielded; it takes a token only when the prologue and the fragment of every
\* token taken before have been yielded, and it takes one token at a time.
C19_NoBuffering ==
    /\ [](\A r \in Streams :
             /\ relayed[r] <= Emitted(out[r]) + 1
             /\ relayed[r] > 0 => (Len(out[r]) >= 2 /\ out[r][1] = Prologue1
                                     /\ out[r][2] = Prologue2)
             /\ pc[r] \in {"START", "P1"} => relayed[r] = 0)
    /\ [][ \A r \in Streams :
               relayed'[r] # relayed[r] =>
                   /\ relayed'[r] = relayed[r] + 1
                   /\ Len(out[r]) = 2 + relayed[r]
                   /\ Emitted(out'[r]) = relayed'[r]
         ]_vars

\* the relay has taken and yielded two tokens while the worker has already
\* queued the third
C19_Witness ==
    \E r \in Streams :
        /\ pc[r] = "STREAMING" /\ ~gone[r]
        /\ relayed[r] = 2 /\ Len(out[r]) = 4 /\ pulled[r] = 3

\* the messages of log that were stored by a chat request which had resolved
\* its session before a deletion of its key
FromDetached(log) == {i \in 1..Len(log) : log[i].req # 0 /\ deleted[log[i].req]}

\* C20: once delete_thread has deleted the log of a key, the log holds no
\* message of a chat request that had resolved its session before; a request
\* that resolves the key afterwards reads no such message when it hydrates
\* its session and holds another engine than the detached one.
C20_DeletionFinal ==
    /\ \A k \in Keys : FromDetached(store[k]) = {}
    /\ \A q \in Streams : FromDetached(existing[q]) = {}
    /\ \A r, q \in Streams :
           (deleted[r] /\ ~deleted[q] /\ eng[q] # NoEngine /\ ReqKey(q) = ReqKey(r)) =>
               eng[q] # eng[r]

====
